---- MODULE Spec2Model ----
(***************************************************************************)
(* Model of sync.py: a batch job that reads its configuration from the     *)
(* environment, ensures two worksheets ("usage", "cost") exist in a        *)
(* spreadsheet, fetches two reports over HTTP, flattens them into rows and *)
(* appends the rows to the worksheets.                                     *)
(*                                                                         *)
(* Python values are modelled as cells [kind, n, s]: a string, a number    *)
(* or None.  Python dicts are functions whose DOMAIN is the set of keys    *)
(* that are present.  Python strings are TLA+ strings.                     *)
(***************************************************************************)
EXTENDS Integers, Sequences, FiniteSets, TLC

VARIABLES
    env,            \* os.environ of the current process
    pc,             \* position of the current process in the script
    exitCode,       \* exit status of the last finished process
    sheet,          \* the spreadsheet: worksheet title -> sequence of rows
    calls,          \* network calls issued by the current process, in order
    date_params,    \* main: date_params
    usage_payload,  \* main: usage_payload
    cost_payload,   \* main: cost_payload
    usage_rows,     \* main: usage_rows
    cost_rows,      \* main: cost_rows
    now,            \* wall clock (dt.datetime.utcnow), in ticks; 24 ticks make a date
    runs            \* number of processes started so far

vars == <<env, pc, exitCode, sheet, calls, date_params, usage_payload,
          cost_payload, usage_rows, cost_rows, now, runs>>

-----------------------------------------------------------------------------
(* Bounds *)

\* number of process invocations explored
MaxRuns == 2

-----------------------------------------------------------------------------
(* Python values *)

Str(s) == [kind |-> "str", n |-> 0, s |-> s]
Num(n) == [kind |-> "num", n |-> n, s |-> ""]
None == [kind |-> "none", n |-> 0, s |-> ""]

\* bool(v)
Truthy(v) ==
    \/ v.kind = "str" /\ v.s # ""
    \/ v.kind = "num" /\ v.n # 0

\* a or b
PyOr(a, b) == IF Truthy(a) THEN a ELSE b

\* a + b on ints
PyAdd(a, b) == Num(a.n + b.n)

\* d.get(k): None when the key is absent
Get(d, k) == IF k \in DOMAIN d THEN d[k] ELSE None

\* d.get(k, default)
GetOr(d, k, default) == IF k \in DOMAIN d THEN d[k] ELSE default

Digit(d) == SubSeq("0123456789", d + 1, d + 1)

RECURSIVE NatToStr(_)
NatToStr(n) == IF n < 10 THEN Digit(n) ELSE NatToStr(n \div 10) \o Digit(n % 10)

\* str(n) for an int
IntToStr(n) == IF n < 0 THEN "-" \o NatToStr(0 - n) ELSE NatToStr(n)

\* str(v), as used by an f-string replacement field
PyStr(v) ==
    CASE v.kind = "str" -> v.s
      [] v.kind = "num" -> IntToStr(v.n)
      [] OTHER -> "None"

\* json.dumps of a scalar
JsonScalar(v) ==
    CASE v.kind = "str" -> "\"" \o v.s \o "\""
      [] v.kind = "num" -> IntToStr(v.n)
      [] OTHER -> "null"

\* keys of a result record, in the order the report lists them
FieldOrder ==
    <<"workspace_id", "model", "uncached_input_tokens",
      "cache_read_input_tokens", "output_tokens", "amount", "description",
      "cost_type">>

RECURSIVE JsonMembers(_, _, _)
JsonMembers(item, i, first) ==
    IF i > Len(FieldOrder) THEN ""
    ELSE IF FieldOrder[i] \in DOMAIN item
         THEN (IF first THEN "" ELSE ", ")
              \o "\"" \o FieldOrder[i] \o "\": " \o JsonScalar(item[FieldOrder[i]])
              \o JsonMembers(item, i + 1, FALSE)
         ELSE JsonMembers(item, i + 1, first)

\* json.dumps(item) for a flat result record
json_dumps(item) == "{" \o JsonMembers(item, 1, TRUE) \o "}"

-----------------------------------------------------------------------------
(* Row Normalizer *)

\* iso_now(): the clock rendered as a string
iso_now(t) == IntToStr(t) \o "Z"

\* UsageRow with the cached input tokens left out of the sum
UsageRow_UncachedOnly(ts, item) ==
    LET uncached_input == GetOr(item, "uncached_input_tokens", Num(0))
    IN  << Str(ts),
           PyOr(Get(item, "workspace_id"), Str("")),
           PyOr(Get(item, "model"), Str("")),
           uncached_input,
           GetOr(item, "output_tokens", Str("")),
           Str(""),
           Str(json_dumps(item)) >>

\* the row normalize_usage appends for one result record
UsageRow(ts, item) ==
    LET uncached_input == GetOr(item, "uncached_input_tokens", Num(0))
        cached_input == GetOr(item, "cache_read_input_tokens", Num(0))
        total_input_tokens == PyAdd(uncached_input, cached_input)
    IN  << Str(ts),
           PyOr(Get(item, "workspace_id"), Str("")),
           PyOr(Get(item, "model"), Str("")),
           total_input_tokens,
           GetOr(item, "output_tokens", Str("")),
           Str(""),
           Str(json_dumps(item)) >>

\* CostRow that leaves a column out when the record has no amount
CostRow_DropsMissingAmount(ts, period, item) ==
    << Str(ts),
       PyOr(Get(item, "workspace_id"), Str("")),
       PyOr(Get(item, "model"), Str("")),
       Str(period) >>
    \o (IF "amount" \in DOMAIN item THEN <<item["amount"]>> ELSE <<>>)
    \o << PyOr(PyOr(Get(item, "description"), Get(item, "cost_type")), Str("")),
          Str(json_dumps(item)) >>

\* the row normalize_cost appends for one result record of a bucket
CostRow(ts, period, item) ==
    << Str(ts),
       PyOr(Get(item, "workspace_id"), Str("")),
       PyOr(Get(item, "model"), Str("")),
       Str(period),
       GetOr(item, "amount", Str("")),
       PyOr(PyOr(Get(item, "description"), Get(item, "cost_type")), Str("")),
       Str(json_dumps(item)) >>

\* f"{data_item.get('starting_at', '')} to {data_item.get('ending_at', '')}"
Period(data_item) ==
    PyStr(GetOr(data_item, "starting_at", Str(""))) \o " to "
        \o PyStr(GetOr(data_item, "ending_at", Str("")))

\* data_item.get("results", [])
Results(data_item) == IF "results" \in DOMAIN data_item THEN data_item["results"] ELSE <<>>

\* payload.get("data", [])
Data(payload) == IF "data" \in DOMAIN payload THEN payload["data"] ELSE <<>>

RECURSIVE UsageItemRows(_, _, _)
UsageItemRows(ts, results, i) ==
    IF i > Len(results) THEN <<>>
    ELSE <<UsageRow(ts, results[i])>> \o UsageItemRows(ts, results, i + 1)

RECURSIVE UsageBucketRows(_, _, _)
UsageBucketRows(ts, data_items, b) ==
    IF b > Len(data_items) THEN <<>>
    ELSE UsageItemRows(ts, Results(data_items[b]), 1)
         \o UsageBucketRows(ts, data_items, b + 1)

normalize_usage(payload, t) == UsageBucketRows(iso_now(t), Data(payload), 1)

RECURSIVE CostItemRows(_, _, _, _)
CostItemRows(ts, period, results, i) ==
    IF i > Len(results) THEN <<>>
    ELSE <<CostRow(ts, period, results[i])>> \o CostItemRows(ts, period, results, i + 1)

RECURSIVE CostBucketRows(_, _, _)
CostBucketRows(ts, data_items, b) ==
    IF b > Len(data_items) THEN <<>>
    ELSE CostItemRows(ts, Period(data_items[b]), Results(data_items[b]), 1)
         \o CostBucketRows(ts, data_items, b + 1)

normalize_cost(payload, t) == CostBucketRows(iso_now(t), Data(payload), 1)

-----------------------------------------------------------------------------
(* Config Resolver: module-level code, executed before main *)

\* os.environ.get(key, default)
EnvGet(e, key, default) == IF key \in DOMAIN e THEN e[key] ELSE default

RECURSIVE LStrip(_)
LStrip(s) ==
    IF Len(s) > 0 /\ SubSeq(s, 1, 1) = " " THEN LStrip(SubSeq(s, 2, Len(s))) ELSE s

RECURSIVE RStrip(_)
RStrip(s) ==
    IF Len(s) > 0 /\ SubSeq(s, Len(s), Len(s)) = " "
    THEN RStrip(SubSeq(s, 1, Len(s) - 1)) ELSE s

\* s.strip()
Strip(s) == RStrip(LStrip(s))

LowerChar(c) ==
    CASE c = "T" -> "t" [] c = "R" -> "r" [] c = "U" -> "u" [] c = "E" -> "e"
      [] c = "Y" -> "y" [] c = "S" -> "s" [] c = "N" -> "n" [] c = "O" -> "o"
      [] OTHER -> c

RECURSIVE Lower(_)
\* s.lower()
Lower(s) ==
    IF Len(s) = 0 THEN ""
    ELSE LowerChar(SubSeq(s, 1, 1)) \o Lower(SubSeq(s, 2, Len(s)))

\* s.startswith(prefix)
StartsWith(s, prefix) ==
    Len(s) >= Len(prefix) /\ SubSeq(s, 1, Len(prefix)) = prefix

\* substring test
Contains(s, p) ==
    \E i \in 1..(Len(s) - Len(p) + 1) : SubSeq(s, i, i + Len(p) - 1) = p

\* json.loads succeeds (for the flat objects of SaBlobs)
JsonLoadsOK(s) ==
    /\ Len(s) >= 2
    /\ SubSeq(s, 1, 1) = "{"
    /\ SubSeq(s, Len(s), Len(s)) = "}"

\* key in json.loads(s)
JsonHasKey(s, key) == Contains(s, "\"" \o key \o "\":")

\* DRY_RUN
DryRunOf(e) == Lower(Strip(EnvGet(e, "DRY_RUN", ""))) \in {"1", "true", "yes"}

\* get_required_env(key): the stripped value; "" makes the process exit
get_required_env(e, key) == Strip(EnvGet(e, key, ""))

\* ServiceAccountError without the private_key check
ServiceAccountError_NoPrivateKeyCheck(blob) ==
    IF ~JsonLoadsOK(blob) THEN "GOOGLE_SERVICE_ACCOUNT_JSON is not valid JSON"
    ELSE IF ~JsonHasKey(blob, "client_email") THEN "missing client_email"
    ELSE ""

\* the credentials checks of the try block; "" when the blob is accepted
ServiceAccountError(blob) ==
    IF ~JsonLoadsOK(blob) THEN "GOOGLE_SERVICE_ACCOUNT_JSON is not valid JSON"
    ELSE IF ~JsonHasKey(blob, "client_email") THEN "missing client_email"
    ELSE IF ~JsonHasKey(blob, "private_key") THEN "missing private_key"
    ELSE ""

\* the first sys.exit(1) the module-level code reaches; "" when it reaches none
ConfigError(e) ==
    IF get_required_env(e, "GOOGLE_SHEET_ID") = "" THEN "GOOGLE_SHEET_ID missing"
    ELSE IF get_required_env(e, "ANTHROPIC_ADMIN_KEY") = "" THEN "ANTHROPIC_ADMIN_KEY missing"
    ELSE IF ~StartsWith(Strip(EnvGet(e, "ANTHROPIC_BASE_URL", "https://api.anthropic.com")),
                        "https://")
         THEN "ANTHROPIC_BASE_URL"
    ELSE IF ~StartsWith(Strip(EnvGet(e, "ANTHROPIC_USAGE_ENDPOINT",
                                     "/v1/organizations/usage_report/messages")), "/v1/")
         THEN "USAGE_ENDPOINT"
    ELSE IF ~StartsWith(Strip(EnvGet(e, "ANTHROPIC_COST_ENDPOINT",
                                     "/v1/organizations/cost_report")), "/v1/")
         THEN "COST_ENDPOINT"
    ELSE IF get_required_env(e, "GOOGLE_SERVICE_ACCOUNT_JSON") = ""
         THEN "GOOGLE_SERVICE_ACCOUNT_JSON missing"
    ELSE ServiceAccountError(get_required_env(e, "GOOGLE_SERVICE_ACCOUNT_JSON"))

USAGE_ENDPOINT(e) ==
    Strip(EnvGet(e, "ANTHROPIC_USAGE_ENDPOINT", "/v1/organizations/usage_report/messages"))

COST_ENDPOINT(e) ==
    Strip(EnvGet(e, "ANTHROPIC_COST_ENDPOINT", "/v1/organizations/cost_report"))

-----------------------------------------------------------------------------
(* get_date_range *)

IsDigit(c) == \E d \in 0..9 : Digit(d) = c

DigitVal(c) == CHOOSE d \in 0..9 : Digit(d) = c

AllDigits(s) == Len(s) > 0 /\ \A i \in 1..Len(s) : IsDigit(SubSeq(s, i, i))

\* int(s) does not raise ValueError
IsIntLiteral(s) ==
    LET t == Strip(s)
    IN  IF Len(t) > 0 /\ SubSeq(t, 1, 1) \in {"-", "+"}
        THEN AllDigits(SubSeq(t, 2, Len(t)))
        ELSE AllDigits(t)

RECURSIVE DigitsToNat(_)
DigitsToNat(s) ==
    IF Len(s) = 0 THEN 0
    ELSE 10 * DigitsToNat(SubSeq(s, 1, Len(s) - 1)) + DigitVal(SubSeq(s, Len(s), Len(s)))

\* int(s) for a string IsIntLiteral accepts
PyInt(s) ==
    LET t == Strip(s)
    IN  IF SubSeq(t, 1, 1) = "-" THEN 0 - DigitsToNat(SubSeq(t, 2, Len(t)))
        ELSE IF SubSeq(t, 1, 1) = "+" THEN DigitsToNat(SubSeq(t, 2, Len(t)))
        ELSE DigitsToNat(t)

\* strftime("%Y-%m-%d") of an hour count: the day it falls on
DateStr(hours) == "day" \o IntToStr(hours \div 24)

\* int(os.environ.get("LOOKBACK_HOURS", "24")) raises ValueError
LookbackRaises(e) == ~IsIntLiteral(EnvGet(e, "LOOKBACK_HOURS", "24"))

\* the dict get_date_range returns
get_date_range(e, t) ==
    LET lookback_hours == PyInt(EnvGet(e, "LOOKBACK_HOURS", "24"))
        ending_at == t
        starting_at == ending_at - lookback_hours
    IN  [starting_at |-> DateStr(starting_at), ending_at |-> DateStr(ending_at)]

-----------------------------------------------------------------------------
(* Report Fetcher *)

\* fetch_json that does not look at the status code
fetch_json_IgnoresStatus(resp) ==
    IF resp.transport_error THEN [exit |-> TRUE, value |-> resp.json]
    ELSE IF ~resp.valid_json THEN [exit |-> TRUE, value |-> resp.json]
    ELSE [exit |-> FALSE, value |-> resp.json]

\* what fetch_json does with the outcome of requests.get: sys.exit(1) or
\* the value it returns
fetch_json(resp) ==
    IF resp.transport_error THEN [exit |-> TRUE, value |-> resp.json]
    ELSE IF resp.status_code # 200 THEN [exit |-> TRUE, value |-> resp.json]
    ELSE IF ~resp.valid_json THEN [exit |-> TRUE, value |-> resp.json]
    ELSE [exit |-> FALSE, value |-> resp.json]

\* the log entry of one GET: n is the status code (0 when the transport
\* failed), ok tells whether fetch_json returned a value to its caller
HttpCall(path, resp, r) ==
    [api |-> "http", op |-> "get", arg |-> path,
     n |-> IF resp.transport_error THEN 0 ELSE resp.status_code,
     ok |-> ~r.exit]

-----------------------------------------------------------------------------
(* Sheet Writer *)

usage_headers ==
    <<Str("timestamp"), Str("workspace_id"), Str("model"), Str("input_tokens"),
      Str("output_tokens"), Str("cost_usd"), Str("raw_json")>>

cost_headers ==
    <<Str("timestamp"), Str("workspace_id"), Str("model"), Str("date"),
      Str("cost_usd"), Str("usage_type"), Str("raw_json")>>

\* one call on the spreadsheet API
SheetOp(op, title, rows) == [op |-> op, title |-> title, rows |-> rows]

\* get_or_create_worksheet that writes the header row on every run
get_or_create_worksheet_AlwaysHeader(sh, title, headers) ==
    IF title \in DOMAIN sh
    THEN <<SheetOp("worksheet", title, <<>>),
           SheetOp("append_row", title, <<headers>>)>>
    ELSE <<SheetOp("worksheet", title, <<>>),
           SheetOp("add_worksheet", title, <<>>),
           SheetOp("append_row", title, <<headers>>)>>

\* the spreadsheet API calls get_or_create_worksheet issues, in order
get_or_create_worksheet(sh, title, headers) ==
    IF title \in DOMAIN sh
    THEN <<SheetOp("worksheet", title, <<>>)>>
    ELSE <<SheetOp("worksheet", title, <<>>),
           SheetOp("add_worksheet", title, <<>>),
           SheetOp("append_row", title, <<headers>>)>>

RECURSIVE OneCallPerRow(_, _)
OneCallPerRow(rows, sheet_name) ==
    IF Len(rows) = 0 THEN <<>>
    ELSE <<SheetOp("append_rows", sheet_name, <<Head(rows)>>)>>
         \o OneCallPerRow(Tail(rows), sheet_name)

\* append_rows that appends row by row
append_rows_RowByRow(rows, sheet_name, dry) ==
    IF Len(rows) = 0 THEN <<>>
    ELSE IF dry THEN <<>>
    ELSE OneCallPerRow(rows, sheet_name)

\* the spreadsheet API calls append_rows issues, in order
append_rows(rows, sheet_name, dry) ==
    IF Len(rows) = 0 THEN <<>>
    ELSE IF dry THEN <<>>
    ELSE <<SheetOp("append_rows", sheet_name, rows)>>

\* SheetApply where a batch replaces the rows of the worksheet
SheetApply_Overwrite(sh, c) ==
    CASE c.op = "add_worksheet" ->
            [t \in DOMAIN sh \cup {c.title} |-> IF t = c.title THEN <<>> ELSE sh[t]]
      [] c.op = "append_row" ->
            [sh EXCEPT ![c.title] = @ \o c.rows]
      [] c.op = "append_rows" ->
            [sh EXCEPT ![c.title] = c.rows]
      [] OTHER -> sh

\* the effect of one spreadsheet API call on the spreadsheet
SheetApply(sh, c) ==
    CASE c.op = "add_worksheet" ->
            [t \in DOMAIN sh \cup {c.title} |-> IF t = c.title THEN <<>> ELSE sh[t]]
      [] c.op \in {"append_row", "append_rows"} ->
            [sh EXCEPT ![c.title] = @ \o c.rows]
      [] OTHER -> sh

RECURSIVE SheetApplyAll(_, _)
SheetApplyAll(sh, ops) ==
    IF Len(ops) = 0 THEN sh
    ELSE SheetApplyAll(SheetApply(sh, Head(ops)), Tail(ops))

\* the log entry of one spreadsheet API call
SheetCall(c) ==
    [api |-> "sheets", op |-> c.op, arg |-> c.title, n |-> Len(c.rows), ok |-> TRUE]

RECURSIVE SheetCalls(_)
SheetCalls(ops) ==
    IF Len(ops) = 0 THEN <<>> ELSE <<SheetCall(Head(ops))>> \o SheetCalls(Tail(ops))

\* the outcomes of open_sheet
OpenOutcomes == {"ok", "credentials_error", "not_found", "not_supported", "error"}

\* the spreadsheet API calls open_sheet issues before it returns or exits
open_sheet(outcome) ==
    CASE outcome = "credentials_error" -> <<>>
      [] outcome \in {"not_found", "error"} -> <<SheetOp("open_by_key", "", <<>>)>>
      [] OTHER -> <<SheetOp("open_by_key", "", <<>>), SheetOp("sheet1", "", <<>>)>>

-----------------------------------------------------------------------------
(* Inputs *)

EnvWith(e, key, value) ==
    [k \in DOMAIN e \cup {key} |-> IF k = key THEN value ELSE e[k]]

EnvWithout(e, key) == [k \in DOMAIN e \ {key} |-> e[k]]

GoodBlob == "{\"client_email\": \"bot@x.test\", \"private_key\": \"k\"}"

NoPrivateKeyBlob == "{\"client_email\": \"bot@x.test\"}"

SaBlobs ==
    {GoodBlob, NoPrivateKeyBlob, "{\"private_key\": \"k\"}", "{}", "{\"client_email\": "}

GoodEnv ==
    [GOOGLE_SHEET_ID |-> "sheet-1", ANTHROPIC_ADMIN_KEY |-> " key ",
     GOOGLE_SERVICE_ACCOUNT_JSON |-> GoodBlob]

\* environments with at most one rejected setting
BaseEnvs ==
    {GoodEnv,
     EnvWithout(GoodEnv, "GOOGLE_SHEET_ID"),
     EnvWith(GoodEnv, "ANTHROPIC_ADMIN_KEY", "  "),
     EnvWith(GoodEnv, "ANTHROPIC_BASE_URL", "http://api.test"),
     EnvWith(GoodEnv, "ANTHROPIC_USAGE_ENDPOINT", "/v2/usage"),
     EnvWith(GoodEnv, "ANTHROPIC_COST_ENDPOINT", "v1/cost"),
     EnvWithout(GoodEnv, "GOOGLE_SERVICE_ACCOUNT_JSON")}
    \cup {EnvWith(GoodEnv, "GOOGLE_SERVICE_ACCOUNT_JSON", b) : b \in SaBlobs}

DryRunSettings == {"", " True ", "no"}

LookbackSettings == {"", "48", "abc"}

\* "" stands for an unset variable
Envs ==
    {LET e1 == IF d = "" THEN b ELSE EnvWith(b, "DRY_RUN", d)
     IN  IF l = "" THEN e1 ELSE EnvWith(e1, "LOOKBACK_HOURS", l)
     : b \in BaseEnvs, d \in DryRunSettings, l \in LookbackSettings}

U1 ==
    [workspace_id |-> Str("ws1"), model |-> Str("m1"),
     uncached_input_tokens |-> Num(100), cache_read_input_tokens |-> Num(50),
     output_tokens |-> Num(7)]

U2 == [model |-> None, uncached_input_tokens |-> Num(3)]

U3 == [workspace_id |-> Str(""), cache_read_input_tokens |-> Num(9), output_tokens |-> Num(0)]

K1 ==
    [workspace_id |-> Str("ws1"), model |-> Str("m1"), amount |-> Str("1.50"),
     description |-> Str("tokens"), cost_type |-> Str("usage")]

K2 == [workspace_id |-> None, amount |-> Num(2), cost_type |-> Str("search")]

K3 == [description |-> Str("")]

\* usage report bodies
UsagePayloads ==
    {[has_more |-> FALSE],
     [data |-> <<>>, has_more |-> FALSE],
     [data |-> <<[results |-> <<U1>>]>>, has_more |-> FALSE],
     [data |-> <<[results |-> <<U1, U2, U1>>], [results |-> <<>>],
                 [starting_at |-> Str("2024-01-01")], [results |-> <<U3, U2>>]>>,
      has_more |-> FALSE]}

\* cost report bodies
CostPayloads ==
    {[has_more |-> FALSE],
     [data |-> <<[starting_at |-> Str("2024-01-01"), ending_at |-> Str("2024-01-02"),
                  results |-> <<K1>>]>>, has_more |-> FALSE],
     [data |-> <<[starting_at |-> Str("2024-01-01"), ending_at |-> Str("2024-01-02"),
                  results |-> <<K1, K2>>],
                 [ending_at |-> None, results |-> <<K3, K1, K2>>]>>,
      has_more |-> FALSE]}

\* outcomes of requests.get for a report whose bodies are P
Responses(P) ==
    {[transport_error |-> FALSE, status_code |-> 200, valid_json |-> TRUE, json |-> p]
        : p \in P}
    \cup {[transport_error |-> te, status_code |-> sc, valid_json |-> vj, json |-> p]
        : te \in BOOLEAN, sc \in {200, 204, 500}, vj \in BOOLEAN,
          p \in {q \in P : Len(Data(q)) = 1}}

\* each worksheet is absent, blank (made by hand) or holds its header row
InitialSheets ==
    {[t \in D |-> IF t \in H THEN <<IF t = "usage" THEN usage_headers ELSE cost_headers>>
                  ELSE <<>>]
        : D \in SUBSET {"usage", "cost"}, H \in SUBSET {"usage", "cost"}}

InitialClock == 47

\* a local of main that is not bound yet
Unbound == [unbound |-> TRUE]

NoDateParams == [starting_at |-> "", ending_at |-> ""]

-----------------------------------------------------------------------------
(* The script as a state machine *)

\* MainNext with the appends moved before the fetches
MainNext_AppendBeforeFetch(p) ==
    CASE p = "config" -> "open_sheet"
      [] p = "open_sheet" -> "ensure_usage"
      [] p = "ensure_usage" -> "ensure_cost"
      [] p = "ensure_cost" -> "date_range"
      [] p = "date_range" -> "append_usage"
      [] p = "append_usage" -> "append_cost"
      [] p = "append_cost" -> "fetch_usage"
      [] p = "fetch_usage" -> "fetch_cost"
      [] p = "fetch_cost" -> "normalize_usage"
      [] p = "normalize_usage" -> "normalize_cost"
      [] OTHER -> "exited"

\* the statement main reaches after the statement at p returns
MainNext(p) ==
    CASE p = "config" -> "open_sheet"
      [] p = "open_sheet" -> "ensure_usage"
      [] p = "ensure_usage" -> "ensure_cost"
      [] p = "ensure_cost" -> "date_range"
      [] p = "date_range" -> "fetch_usage"
      [] p = "fetch_usage" -> "fetch_cost"
      [] p = "fetch_cost" -> "normalize_usage"
      [] p = "normalize_usage" -> "normalize_cost"
      [] p = "normalize_cost" -> "append_usage"
      [] p = "append_usage" -> "append_cost"
      [] OTHER -> "exited"

Init ==
    /\ env = GoodEnv
    /\ pc = "idle"
    /\ exitCode = 0
    /\ sheet \in InitialSheets
    /\ calls = <<>>
    /\ date_params = NoDateParams
    /\ usage_payload = Unbound
    /\ cost_payload = Unbound
    /\ usage_rows = <<>>
    /\ cost_rows = <<>>
    /\ now = InitialClock
    /\ runs = 0

\* sys.exit(1), or an uncaught exception
Die ==
    /\ pc' = "exited"
    /\ exitCode' = 1

\* the scheduler starts the script in a fresh process
StartProcess ==
    /\ pc \in {"idle", "exited"}
    /\ runs < MaxRuns
    /\ \E e \in Envs : env' = e
    /\ now' = now + 1
    /\ runs' = runs + 1
    /\ pc' = "config"
    /\ calls' = <<>>
    /\ date_params' = NoDateParams
    /\ usage_payload' = Unbound
    /\ cost_payload' = Unbound
    /\ usage_rows' = <<>>
    /\ cost_rows' = <<>>
    /\ UNCHANGED <<exitCode, sheet>>

\* lines 11-54
LoadConfig ==
    /\ pc = "config"
    /\ IF ConfigError(env) # ""
       THEN Die
       ELSE pc' = MainNext(pc) /\ UNCHANGED exitCode
    /\ UNCHANGED <<env, sheet, calls, date_params, usage_payload, cost_payload,
                   usage_rows, cost_rows, now, runs>>

\* sh = open_sheet()
OpenSheet ==
    /\ pc = "open_sheet"
    /\ \E outcome \in OpenOutcomes :
        /\ calls' = calls \o SheetCalls(open_sheet(outcome))
        /\ IF outcome = "ok"
           THEN pc' = MainNext(pc) /\ UNCHANGED exitCode
           ELSE Die
    /\ UNCHANGED <<env, sheet, date_params, usage_payload, cost_payload,
                   usage_rows, cost_rows, now, runs>>

\* usage_ws = get_or_create_worksheet(sh, "usage", usage_headers)
EnsureUsage ==
    /\ pc = "ensure_usage"
    /\ LET ops == get_or_create_worksheet(sheet, "usage", usage_headers)
       IN  /\ sheet' = SheetApplyAll(sheet, ops)
           /\ calls' = calls \o SheetCalls(ops)
    /\ pc' = MainNext(pc)
    /\ UNCHANGED <<env, exitCode, date_params, usage_payload, cost_payload,
                   usage_rows, cost_rows, now, runs>>

\* cost_ws = get_or_create_worksheet(sh, "cost", cost_headers)
EnsureCost ==
    /\ pc = "ensure_cost"
    /\ LET ops == get_or_create_worksheet(sheet, "cost", cost_headers)
       IN  /\ sheet' = SheetApplyAll(sheet, ops)
           /\ calls' = calls \o SheetCalls(ops)
    /\ pc' = MainNext(pc)
    /\ UNCHANGED <<env, exitCode, date_params, usage_payload, cost_payload,
                   usage_rows, cost_rows, now, runs>>

\* date_params = get_date_range()
DateRange ==
    /\ pc = "date_range"
    /\ IF LookbackRaises(env)
       THEN Die /\ UNCHANGED date_params
       ELSE /\ date_params' = get_date_range(env, now)
            /\ pc' = MainNext(pc)
            /\ UNCHANGED exitCode
    /\ UNCHANGED <<env, sheet, calls, usage_payload, cost_payload,
                   usage_rows, cost_rows, now, runs>>

\* usage_payload = fetch_json(USAGE_ENDPOINT, ...)
FetchUsage ==
    /\ pc = "fetch_usage"
    /\ \E resp \in Responses(UsagePayloads) :
        LET r == fetch_json(resp)
        IN  /\ calls' = Append(calls, HttpCall(USAGE_ENDPOINT(env), resp, r))
            /\ IF r.exit
               THEN Die /\ UNCHANGED usage_payload
               ELSE /\ usage_payload' = r.value
                    /\ pc' = MainNext(pc)
                    /\ UNCHANGED exitCode
    /\ UNCHANGED <<env, sheet, date_params, cost_payload, usage_rows, cost_rows,
                   now, runs>>

\* cost_payload = fetch_json(COST_ENDPOINT, ...)
FetchCost ==
    /\ pc = "fetch_cost"
    /\ \E resp \in Responses(CostPayloads) :
        LET r == fetch_json(resp)
        IN  /\ calls' = Append(calls, HttpCall(COST_ENDPOINT(env), resp, r))
            /\ IF r.exit
               THEN Die /\ UNCHANGED cost_payload
               ELSE /\ cost_payload' = r.value
                    /\ pc' = MainNext(pc)
                    /\ UNCHANGED exitCode
    /\ UNCHANGED <<env, sheet, date_params, usage_payload, usage_rows, cost_rows,
                   now, runs>>

\* usage_rows = normalize_usage(usage_payload)
NormalizeUsage ==
    /\ pc = "normalize_usage"
    /\ usage_rows' = normalize_usage(usage_payload, now)
    /\ pc' = MainNext(pc)
    /\ UNCHANGED <<env, exitCode, sheet, calls, date_params, usage_payload,
                   cost_payload, cost_rows, now, runs>>

\* cost_rows = normalize_cost(cost_payload)
NormalizeCost ==
    /\ pc = "normalize_cost"
    /\ cost_rows' = normalize_cost(cost_payload, now)
    /\ pc' = MainNext(pc)
    /\ UNCHANGED <<env, exitCode, sheet, calls, date_params, usage_payload,
                   cost_payload, usage_rows, now, runs>>

\* append_rows(usage_ws, usage_rows, "usage")
AppendUsage ==
    /\ pc = "append_usage"
    /\ LET ops == append_rows(usage_rows, "usage", DryRunOf(env))
       IN  /\ sheet' = SheetApplyAll(sheet, ops)
           /\ calls' = calls \o SheetCalls(ops)
    /\ pc' = MainNext(pc)
    /\ UNCHANGED <<env, exitCode, date_params, usage_payload, cost_payload,
                   usage_rows, cost_rows, now, runs>>

\* append_rows(cost_ws, cost_rows, "cost"), then main returns
AppendCost ==
    /\ pc = "append_cost"
    /\ LET ops == append_rows(cost_rows, "cost", DryRunOf(env))
       IN  /\ sheet' = SheetApplyAll(sheet, ops)
           /\ calls' = calls \o SheetCalls(ops)
    /\ pc' = MainNext(pc)
    /\ exitCode' = 0
    /\ UNCHANGED <<env, date_params, usage_payload, cost_payload,
                   usage_rows, cost_rows, now, runs>>

Next ==
    \/ StartProcess
    \/ LoadConfig
    \/ OpenSheet
    \/ EnsureUsage
    \/ EnsureCost
    \/ DateRange
    \/ FetchUsage
    \/ FetchCost
    \/ NormalizeUsage
    \/ NormalizeCost
    \/ AppendUsage
    \/ AppendCost

Spec == Init /\ [][Next]_vars

-----------------------------------------------------------------------------
(* The normalizers on their own, over every combination of optional fields *)

UsageFieldValues ==
    [workspace_id |-> {None, Str(""), Str("ws1")},
     model |-> {None, Str("m1")},
     uncached_input_tokens |-> {Num(0), Num(100)},
     cache_read_input_tokens |-> {Num(0), Num(50)},
     output_tokens |-> {None, Num(7)}]

CostFieldValues ==
    [workspace_id |-> {None, Str("ws1")},
     model |-> {Str("m1")},
     amount |-> {Str("1.50"), Num(2)},
     description |-> {None, Str(""), Str("tokens")},
     cost_type |-> {None, Str("usage")}]

\* every dict whose keys are some of the fields of V
ItemsOver(V) ==
    UNION {{f \in [S -> UNION {V[k] : k \in S}] : \A k \in S : f[k] \in V[k]}
              : S \in SUBSET DOMAIN V}

Absent == [kind |-> "absent", n |-> 0, s |-> ""]

\* a bucket dict; Absent leaves the key out
Bucket(starting_at, ending_at, results) ==
    CASE starting_at = Absent /\ ending_at = Absent -> [results |-> results]
      [] starting_at = Absent /\ ending_at # Absent ->
            [ending_at |-> ending_at, results |-> results]
      [] starting_at # Absent /\ ending_at = Absent ->
            [starting_at |-> starting_at, results |-> results]
      [] OTHER ->
            [starting_at |-> starting_at, ending_at |-> ending_at, results |-> results]

NormUsagePayloads ==
    UsagePayloads
    \cup {[data |-> <<[results |-> <<item>>]>>, has_more |-> FALSE]
            : item \in ItemsOver(UsageFieldValues)}

NormCostPayloads ==
    CostPayloads
    \cup {[data |-> <<Bucket(sa, ea, <<item>>)>>, has_more |-> FALSE]
            : sa \in {Absent, None, Str("2024-01-01")},
              ea \in {Absent, Str("2024-01-02")},
              item \in ItemsOver(CostFieldValues)}

InitNorm ==
    /\ env = GoodEnv
    /\ pc = "normalize_usage"
    /\ exitCode = 0
    /\ sheet = [t \in {"usage", "cost"} |->
                    <<IF t = "usage" THEN usage_headers ELSE cost_headers>>]
    /\ calls = <<>>
    /\ date_params = get_date_range(GoodEnv, InitialClock)
    /\ \/ usage_payload \in NormUsagePayloads /\ cost_payload \in CostPayloads
       \/ usage_payload \in UsagePayloads /\ cost_payload \in NormCostPayloads
    /\ usage_rows = <<>>
    /\ cost_rows = <<>>
    /\ now = InitialClock
    /\ runs = 1

NextNorm ==
    \/ NormalizeUsage
    \/ NormalizeCost

SpecNorm == InitNorm /\ [][NextNorm]_vars

-----------------------------------------------------------------------------
(* Properties *)

Tables == {"usage", "cost"}

HeaderOf(t) == IF t = "usage" THEN usage_headers ELSE cost_headers

IsPrefix(a, b) == Len(a) <= Len(b) /\ SubSeq(b, 1, Len(a)) = a

\* the process has left the module-level code
PastConfig == pc \notin {"idle", "config"}

\* positions of the log entries of a kind
SheetWrites == {i \in 1..Len(calls) : calls[i].op \in {"add_worksheet", "append_row", "append_rows"}}

RowAppends == {i \in 1..Len(calls) : calls[i].op = "append_rows"}

HttpGets == {i \in 1..Len(calls) : calls[i].api = "http"}

\* both reports were fetched successfully, usage first, before position i
BothFetchedBefore(i) ==
    \E j, k \in HttpGets :
        /\ j < k /\ k < i
        /\ calls[j].ok /\ calls[j].arg = USAGE_ENDPOINT(env)
        /\ calls[k].ok /\ calls[k].arg = COST_ENDPOINT(env)

RECURSIVE FlatResults(_, _)
\* the result records of a payload, bucket after bucket
FlatResults(data_items, b) ==
    IF b > Len(data_items) THEN <<>>
    ELSE (IF "results" \in DOMAIN data_items[b] THEN data_items[b].results ELSE <<>>)
         \o FlatResults(data_items, b + 1)

RecordsOf(payload) ==
    IF "data" \in DOMAIN payload THEN FlatResults(payload.data, 1) ELSE <<>>

\* the value of a token field, 0 when the record does not have it
TokensOrZero(rec, field) == IF field \in DOMAIN rec THEN rec[field].n ELSE 0

\* number of rows whose raw_json column is j
CountRaw(rows, j) == Cardinality({i \in 1..Len(rows) : rows[i][7] = Str(j)})

\* C1: in dry-run mode no step of the run changes the spreadsheet (no table
\* created, no header row written, no row appended).
C1_DryRunNeverWrites == [][DryRunOf(env) => sheet' = sheet]_vars

\* what one append_rows call of main does to the log and to the spreadsheet
AppendStep(t, rows) ==
    IF Len(rows) > 0 /\ ~DryRunOf(env)
    THEN /\ calls' = Append(calls, [api |-> "sheets", op |-> "append_rows",
                                    arg |-> t, n |-> Len(rows), ok |-> TRUE])
         /\ sheet' = [sheet EXCEPT ![t] = sheet[t] \o rows]
    ELSE /\ calls' = calls
         /\ sheet' = sheet

\* C2: append_rows issues exactly one batched write holding all rows in
\* order as trailing records when rows is non-empty and dry-run is off, and
\* no write at all (and no error) when rows is empty or dry-run is on.
C2_AppendIsOneBatch ==
    [][/\ pc = "append_usage" =>
            AppendStep("usage", usage_rows) /\ pc' = "append_cost"
       /\ pc = "append_cost" =>
            AppendStep("cost", cost_rows) /\ pc' = "exited" /\ exitCode' = 0]_vars

\* dry run, 5 usage rows, append_rows has returned, nothing was written
C2_Witness ==
    /\ pc = "append_cost"
    /\ DryRunOf(env)
    /\ Len(usage_rows) = 5
    /\ RowAppends = {}

\* the credentials blob parses and has no private_key member
LacksPrivateKey(e) ==
    /\ "GOOGLE_SERVICE_ACCOUNT_JSON" \in DOMAIN e
    /\ e["GOOGLE_SERVICE_ACCOUNT_JSON"] \in {NoPrivateKeyBlob, "{}"}

\* C3: a credentials blob without private_key ends the process with exit
\* code 1 before any network call: once the module-level code has run, the
\* process has exited and its call log is empty.
C3_NoPrivateKeyIsFatal ==
    (LacksPrivateKey(env) /\ PastConfig) =>
        (pc = "exited" /\ exitCode = 1 /\ calls = <<>>)

C3_Witness ==
    /\ LacksPrivateKey(env)
    /\ env["GOOGLE_SERVICE_ACCOUNT_JSON"] = NoPrivateKeyBlob
    /\ pc = "exited"
    /\ exitCode = 1
    /\ runs = 1

\* C4: fetch_json returns a value only for status 200; a fetch that fails
\* ends the run with exit code 1, no endpoint is requested twice in a run,
\* and a run with a failed fetch appends no data row.
C4_FetchFailureIsFatal ==
    /\ \A i \in HttpGets : calls[i].ok => calls[i].n = 200
    /\ \A i, j \in HttpGets : calls[i].arg = calls[j].arg => i = j
    /\ (\E i \in HttpGets : ~calls[i].ok) =>
            /\ pc = "exited"
            /\ exitCode = 1
            /\ RowAppends = {}
            /\ usage_rows = <<>>
            /\ cost_rows = <<>>

\* the usage report was fetched, then the cost report came back with
\* status 200 and a body fetch_json could not return
C4_Witness ==
    /\ Len(calls) >= 2
    /\ calls[Len(calls) - 1].api = "http" /\ calls[Len(calls) - 1].ok
    /\ calls[Len(calls)].api = "http" /\ ~calls[Len(calls)].ok
    /\ calls[Len(calls)].n = 200
    /\ pc = "exited"

EnsurePc(t) == IF t = "usage" THEN "ensure_usage" ELSE "ensure_cost"

\* C5: get_or_create_worksheet leaves a table it finds untouched (one lookup,
\* no creation, no header write); it creates a table it does not find with
\* the header as its only row; and no later step changes the first row of a
\* table, so the header stays ahead of every data row.
C5_EnsureTableIdempotent ==
    [][\A t \in Tables :
        /\ (pc = EnsurePc(t) /\ t \in DOMAIN sheet) =>
              /\ sheet' = sheet
              /\ calls' = Append(calls, [api |-> "sheets", op |-> "worksheet",
                                         arg |-> t, n |-> 0, ok |-> TRUE])
        /\ (pc = EnsurePc(t) /\ t \notin DOMAIN sheet) =>
              /\ DOMAIN sheet' = DOMAIN sheet \cup {t}
              /\ sheet'[t] = <<HeaderOf(t)>>
              /\ \A u \in DOMAIN sheet : sheet'[u] = sheet[u]
        /\ (t \notin DOMAIN sheet /\ t \in DOMAIN sheet') => pc = EnsurePc(t)
        /\ (t \in DOMAIN sheet /\ Len(sheet[t]) > 0) =>
              /\ t \in DOMAIN sheet'
              /\ Len(sheet'[t]) > 0
              /\ sheet'[t][1] = sheet[t][1]]_vars

\* second run: the usage table, with header and data rows of the first run,
\* has just been looked up again
C5_Witness ==
    /\ runs = 2
    /\ pc = "ensure_cost"
    /\ Len(sheet["usage"]) > 1
    /\ sheet["usage"][1] = usage_headers
    /\ \A i \in 2..Len(sheet["usage"]) : sheet["usage"][i] # usage_headers

\* the records of a report are appended once more, whatever the table holds
AppendsAgain(t, payload, rows) ==
    \A i \in 1..Len(RecordsOf(payload)) :
        LET j == json_dumps(RecordsOf(payload)[i])
        IN  /\ CountRaw(rows, j) >= 1
            /\ CountRaw(sheet'[t], j) = CountRaw(sheet[t], j) + CountRaw(rows, j)

\* C6: tables are append-only without deduplication: every step keeps the
\* rows of every table as a prefix of its rows afterwards, and the append
\* steps of a non-dry run add every fetched record once more per occurrence
\* in the report, also when the table already holds it.
C6_AppendOnlyNoDedup ==
    [][/\ \A t \in DOMAIN sheet :
            t \in DOMAIN sheet' /\ IsPrefix(sheet[t], sheet'[t])
       /\ (pc = "append_usage" /\ ~DryRunOf(env)) =>
            AppendsAgain("usage", usage_payload, usage_rows)
       /\ (pc = "append_cost" /\ ~DryRunOf(env)) =>
            AppendsAgain("cost", cost_payload, cost_rows)]_vars

\* two successful non-dry runs over the same cost report: record K3 of the
\* report is in the cost table twice
C6_Witness ==
    /\ runs = 2
    /\ pc = "exited"
    /\ exitCode = 0
    /\ ~DryRunOf(env)
    /\ K3 \in {RecordsOf(cost_payload)[i] : i \in 1..Len(RecordsOf(cost_payload))}
    /\ CountRaw(sheet["cost"], json_dumps(K3)) = 2

\* normalize_usage has returned
UsageNormalized == pc \in {"normalize_cost", "append_usage"}

\* C7: normalize_usage emits one row per result record, in order, whose 4th
\* column is uncached_input_tokens + cache_read_input_tokens of the record
\* with a missing field counted as 0.
C7_InputTokensAreSummed ==
    UsageNormalized =>
        LET recs == RecordsOf(usage_payload)
        IN  /\ Len(usage_rows) = Len(recs)
            /\ \A i \in 1..Len(recs) :
                  usage_rows[i][4] =
                      Num(TokensOrZero(recs[i], "uncached_input_tokens")
                          + TokensOrZero(recs[i], "cache_read_input_tokens"))

\* a record with only cache_read_input_tokens = 50 gave 50
C7_Witness ==
    /\ UsageNormalized
    /\ Len(usage_rows) = 1
    /\ LET rec == RecordsOf(usage_payload)[1]
       IN  /\ "uncached_input_tokens" \notin DOMAIN rec
           /\ "cache_read_input_tokens" \in DOMAIN rec
           /\ rec["cache_read_input_tokens"] = Num(50)
    /\ usage_rows[1][4] = Num(50)

\* C8: every row of normalize_usage and of normalize_cost has 7 columns, the
\* width of the header of its table.
C8_RowWidthIsSeven ==
    /\ \A i \in 1..Len(usage_rows) :
          Len(usage_rows[i]) = 7 /\ Len(usage_rows[i]) = Len(usage_headers)
    /\ \A i \in 1..Len(cost_rows) :
          Len(cost_rows[i]) = 7 /\ Len(cost_rows[i]) = Len(cost_headers)

\* a cost record with no field at all, in a bucket without dates
C8_Witness ==
    /\ pc = "append_usage"
    /\ Len(cost_rows) = 1
    /\ cost_rows[1][7] = Str("{}")
    /\ cost_rows[1][4] = Str(" to ")

\* C9 as stated: no spreadsheet call (open, lookup, creation, header write,
\* row append) before both reports were fetched successfully.
C9_SheetWriterComesLast ==
    \A i \in 1..Len(calls) : calls[i].api = "sheets" => BothFetchedBefore(i)

\* C9 amended: the configuration is accepted before any call; the
\* spreadsheet is opened and the tables are looked up or created before the
\* first fetch; rows are appended only after both fetches returned and both
\* payloads were normalized.
C9_AppendsComeLast ==
    /\ calls # <<>> => ConfigError(env) = ""
    /\ \A i \in HttpGets : \A j \in 1..Len(calls) :
          calls[j].op \in {"open_by_key", "sheet1", "worksheet", "add_worksheet",
                           "append_row"} => j < i
    /\ \A i \in HttpGets :
          \E j, k \in 1..Len(calls) :
              /\ j < i /\ calls[j].op = "worksheet" /\ calls[j].arg = "usage"
              /\ k < i /\ calls[k].op = "worksheet" /\ calls[k].arg = "cost"
    /\ \A i \in RowAppends : BothFetchedBefore(i)
    /\ (pc \in {"append_usage", "append_cost"} \/ RowAppends # {}) =>
          /\ BothFetchedBefore(Len(calls) + 1)
          /\ usage_rows = normalize_usage(usage_payload, now)
          /\ cost_rows = normalize_cost(cost_payload, now)

\* both tables were created, both reports fetched, rows appended to both
C9_Witness ==
    /\ pc = "exited"
    /\ exitCode = 0
    /\ \E i, j \in RowAppends : calls[i].arg = "usage" /\ calls[j].arg = "cost"
    /\ \E i \in SheetWrites : calls[i].op = "add_worksheet"

\* LOOKBACK_HOURS is set to something int() rejects
BadLookback(e) ==
    "LOOKBACK_HOURS" \in DOMAIN e /\ e["LOOKBACK_HOURS"] = "abc"

\* C10: a LOOKBACK_HOURS that is not an integer ends the process with exit
\* code 1 at startup, before any network call and before any table is
\* created or written.
C10_BadLookbackFailsFast ==
    (BadLookback(env) /\ pc # "idle") =>
        /\ calls = <<>>
        /\ pc = "exited" => exitCode = 1

====
